---- MODULE Spec2Model ----
(***************************************************************************)
(* A model of shell-sage: the CLI command main with the ShellSage helper   *)
(* (shell_sage/core.py), the Claude Client dispatcher                       *)
(* (shell_sage/models/claude/client.py, types.py) and the response         *)
(* extractor contents (shell_sage/models/claude/utils.py).                  *)
(*                                                                         *)
(* Python strings are finite sequences of one-character strings; a literal *)
(* that the program only ever copies (a tag, a prompt template, a repr) is *)
(* one element.  A value that is not a string where a string may stand     *)
(* (None, a missing attribute, an unpiped stdin) is a one-element sequence *)
(* whose element starts with #, which no string of the model contains.     *)
(***************************************************************************)
EXTENDS Integers, Sequences, FiniteSets, TLC

VARIABLES
    \* ---- contents (utils.py)
    content,        \* r.content: the response's ordered content parts
    result,         \* what contents(r) produced: Pending, a return or a raise
    \* ---- main / ShellSage (core.py)
    entry,          \* "main": the CLI command; "ShellSage": the class used directly
    pc,             \* position of the invocation
    cfg_model,      \* config.model
    query,          \* main's query argument
    sassy,          \* main's --sassy flag
    system,         \* the system prompt handed to _get_completion
    tmux_context,   \* what get_tmux_context returned (None when unavailable)
    stdin_text,     \* NotPiped when sys.stdin.isatty(), else sys.stdin.read()
    context_parts,  \* main's list context_parts
    full_query,     \* the prompt
    messages,       \* what create_messages did: Pending, a return or a raise
    sent,           \* requests handed to the provider by _get_completion
    exc,            \* the exception in flight or last raised ("none" if none)
    answers,        \* answers rendered on the console
    errors,         \* errors reported by main's handler
    exit_code,      \* the process exit code (-1 while running)
    \* ---- Client (client.py)
    client,         \* "none" (no Client), "new", "ready" or the error __init__ raised
    model,          \* Client(model=...)
    api_key,        \* whether self.api_key holds a key
    log_usage,      \* Client(log_usage=...)
    usage_log,      \* self.usage_log: [none |-> TRUE] or [items |-> list of Usage]
    call,           \* the current get_completion call and its generator
    ncalls,         \* get_completion calls made so far
    completed,      \* calls that completed (response returned / stream exhausted)
    \* ---- ToolChoice / ChatRequest (types.py)
    choose,         \* the argument of ToolChoice.from_choice
    tool_choice,    \* the ToolChoice built from it (NoToolChoice before)
    request,        \* the fields handed to ChatRequest(...)
    accepted,       \* "pending", or whether ChatRequest(...) validated
    \* ---- credential store (config.py)
    store,          \* the config directory and credentials.json on disk
    config_op,      \* the last operation: "none", "load" or "save"
    config_result,  \* what it produced: Pending, a return or a raise
    nops            \* operations made so far

vars_contents == <<content, result>>
vars_cli == <<entry, pc, cfg_model, query, sassy, system, tmux_context, stdin_text,
              context_parts, full_query, messages, sent, exc, answers,
              errors, exit_code>>
vars_client == <<client, model, api_key, log_usage, usage_log, call, ncalls,
                 completed>>
vars_types == <<choose, tool_choice, request, accepted>>
vars_config == <<store, config_op, config_result, nops>>
vars_lib == <<vars_types, vars_config>>
vars == <<vars_contents, vars_cli, vars_client, vars_lib>>

None == <<"#None">>
Pending == [kind |-> "pending", value |-> <<>>]

(***************************************************************************)
(* Bounds of the model.                                                    *)
(***************************************************************************)
MaxTextLen == 3     \* longest text of a content part
MaxParts == 2       \* longest content sequence
MaxLen == 1         \* longest query, captured history, piped text, system prompt
MaxCalls == 2       \* get_completion calls made on one Client
MaxFragments == 2   \* text fragments one stream delivers

(***************************************************************************)
(* Strings.                                                                *)
(***************************************************************************)
Whitespace == {" ", "\n"}

SeqsUpTo(S, n) == UNION {[1..k -> S] : k \in 0..n}

\* str.lstrip() / str.rstrip() / str.strip(): drop surrounding whitespace
RECURSIVE LStrip(_)
LStrip(s) ==
    IF s = <<>> THEN <<>>
    ELSE IF Head(s) \in Whitespace THEN LStrip(Tail(s)) ELSE s

RECURSIVE RStrip(_)
RStrip(s) ==
    IF s = <<>> THEN <<>>
    ELSE IF s[Len(s)] \in Whitespace THEN RStrip(SubSeq(s, 1, Len(s) - 1)) ELSE s

Strip(s) == RStrip(LStrip(s))

\* Python truthiness of a str or None: `if x` / `not x`
Truthy(x) == x # None /\ x # <<>>

Return(v) == [kind |-> "return", value |-> v]
Raise(e) == [kind |-> "raise", value |-> <<e>>]

(***************************************************************************)
(* contents: extract the answer text of a response (utils.py).             *)
(***************************************************************************)
TextChars == {"h", " "}
Texts == SeqsUpTo(TextChars, MaxTextLen)

\* A content part: its class and its text attribute (NoAttr: it has none).
NoAttr == <<"#NoAttr">>
\* None where a part may stand
NoBlock == [cls |-> "NoneType", text |-> NoAttr]
TextBlocks == [cls : {"TextBlock"}, text : Texts]
ToolUseBlocks == [cls : {"ToolUseBlock"}, text : {NoAttr}]
OtherBlocks == [cls : {"OtherBlock"}, text : Texts]
Parts == TextBlocks \cup ToolUseBlocks \cup OtherBlocks
ContentInputs == SeqsUpTo(Parts, MaxParts)

\* isinstance(o, TextBlock)
IsTextBlock(o) == o.cls = "TextBlock"

\* hasattr(blk, 'text')
HasText(blk) == blk.text # NoAttr

\* str(blk): the generic string form of a part, or of None
Str(blk) == IF blk = NoBlock THEN <<"None">> ELSE <<blk.cls, "(...)">>

\* first(x): next(iter(x), None)
First(x) == IF x = <<>> THEN NoBlock ELSE Head(x)

FindBlockLast(c) ==
    LET t == SelectSeq(c, IsTextBlock) IN IF t = <<>> THEN NoBlock ELSE t[Len(t)]

\* find_block(r): the first part that is a TextBlock, or None
FindBlock(c) == First(SelectSeq(c, IsTextBlock))

\* contents(r)
ContentsOf(c) ==
    LET found == FindBlock(c)
        blk == IF found = NoBlock /\ c # <<>> THEN c[1] ELSE found
    IN  IF HasText(blk) THEN Return(Strip(blk.text)) ELSE Return(Str(blk))

Contents ==
    /\ result = Pending
    /\ result' = ContentsOf(content)
    /\ UNCHANGED <<content, vars_cli, vars_client, vars_lib>>

(***************************************************************************)
(* main and ShellSage (core.py), get_history (pane.py).                    *)
(***************************************************************************)
Chars == {"a", " "}
Strs == SeqsUpTo(Chars, MaxLen)
NotPiped == <<"#NotPiped">>

\* prompts.py: sp and ssp, two fixed non-empty templates
sage_prompt == <<"sp">>
sassy_sage_prompt == <<"ssp">>

\* A model identifier "provider:name"; "" is EmptyModel.
ModelId(p, n) == [provider |-> p, name |-> n]
EmptyModel == ModelId("", "")
DefaultModel == ModelId("anthropic", "claude-3-5-sonnet-20241022")
FallbackModel == ModelId("anthropic", "claude-3-5-sonnet-20240620")
SageModelInputs == {DefaultModel, EmptyModel, ModelId("anthropic", "claude-typo")}

\* providers.py: AVAILABLE_PROVIDERS[provider]["models"]
AVAILABLE_PROVIDERS ==
    [anthropic |-> {"claude-3-5-sonnet-20241022", "claude-3-5-haiku-20241022",
                    "claude-3-opus-20240229"},
     openai |-> {"gpt-4o", "gpt-4o-2024-11-20", "gpt-4o-2024-08-06",
                 "gpt-4o-2024-05-13", "gpt-4o-mini", "o1-preview", "o1-mini"}]

KnownSageModel(m) ==
    /\ m.provider \in DOMAIN AVAILABLE_PROVIDERS
    /\ m.name \in AVAILABLE_PROVIDERS[m.provider]

\* "\n".join(parts)
RECURSIVE Join(_)
Join(parts) ==
    IF parts = <<>> THEN <<>>
    ELSE IF Len(parts) = 1 THEN parts[1]
    ELSE parts[1] \o <<"\n">> \o Join(Tail(parts))

\* f"<terminal_history>\n{h}\n</terminal_history>"
HistoryTag(h) == <<"<terminal_history>", "\n">> \o h \o <<"\n", "</terminal_history>">>
\* f"<context>\n{s}</context>"
ContextTag(s) == <<"<context>", "\n">> \o s \o <<"</context>">>
\* f"<query>\n{q}\n</query>"
QueryTag(q) == <<"<query>", "\n">> \o q \o <<"\n", "</query>">>

\* create_messages(query, system_prompt)
CreateMessages(q, s) ==
    IF ~Truthy(q) \/ ~Truthy(s) THEN Raise("ValueError")
    ELSE Return(<<[role |-> "system", content |-> s], [role |-> "user", content |-> q]>>)

\* What the tmux commands run by get_history can do: print the capture, exit
\* non-zero (CalledProcessError) or be missing (FileNotFoundError).
TmuxRuns == {<<"#nonzero_exit">>, <<"#missing_executable">>} \cup Strs
\* The environment of get_tmux_context: TMUX unset, or a tmux run.
TmuxInputs == {<<"#TMUX_unset">>} \cup TmuxRuns

\* The pane selector: 'current', 'all' or a pane id
PaneSelectors == {"current", "all", "%1"}

\* get_pane_output(num_lines, pane_id): check_output of tmux capture-pane
GetPaneOutput(run) ==
    IF run = <<"#nonzero_exit">> THEN Raise("CalledProcessError")
    ELSE IF run = <<"#missing_executable">> THEN Raise("FileNotFoundError")
    ELSE Return(run)

\* get_pane_outputs(num_lines), with the current pane %0 as the only pane:
\* f"<pane id={pid} {is_active}>{pane_output}</pane>"
GetPaneOutputs(run) ==
    LET r == GetPaneOutput(run) IN
    IF r.kind = "raise" THEN r
    ELSE Return(<<"<pane id=", "%0", " ", "active", ">">> \o r.value
                \o <<"</pane>">>)

\* get_history(n, pid): the capture; None on CalledProcessError
GetHistory(pid, run) ==
    LET r == IF pid = "all" THEN GetPaneOutputs(run) ELSE GetPaneOutput(run) IN
    IF r = Raise("CalledProcessError") THEN Return(None) ELSE r

\* ShellSage.get_tmux_context(pid, n)
GetTmuxContext(pid, t) ==
    IF t = <<"#TMUX_unset">> THEN Return(None)
    ELSE LET r == GetHistory(pid, t) IN
         IF r = Raise("CalledProcessError") THEN Return(None) ELSE r

\* where an exception raised in the try body lands
Handler == IF entry = "main" THEN "except" ELSE "raised"

\* main: ShellSageConfig(...) and ShellSage.__init__ up to setup_client
MainStart ==
    /\ pc = "start"
    /\ cfg_model' = DefaultModel
    /\ pc' = "setup_client"
    /\ UNCHANGED <<entry, query, sassy, system, tmux_context, stdin_text,
                   context_parts, full_query, messages, sent, exc,
                   answers, errors, exit_code, vars_contents, vars_client,
                   vars_lib>>

\* ShellSage.setup_client: ai.Client() succeeds or ConnectionError is raised
SetupClient ==
    /\ pc = "setup_client"
    /\ \E ok \in BOOLEAN :
         IF ok
         THEN /\ pc' = IF entry = "main" THEN "tmux" ELSE "completion"
              /\ exc' = exc
         ELSE /\ pc' = Handler
              /\ exc' = "ConnectionError"
    /\ UNCHANGED <<entry, cfg_model, query, sassy, system, tmux_context,
                   stdin_text, context_parts, full_query, messages, sent,
                   answers, errors, exit_code, vars_contents, vars_client,
                   vars_lib>>

\* main: the walrus on sage.get_tmux_context(pid, history_lines)
GetTmux ==
    /\ pc = "tmux"
    /\ \E pid \in PaneSelectors, t \in TmuxInputs :
         LET r == GetTmuxContext(pid, t) IN
         IF r.kind = "raise"
         THEN /\ exc' = r.value[1]
              /\ pc' = Handler
              /\ UNCHANGED <<tmux_context, context_parts>>
         ELSE /\ tmux_context' = r.value
              /\ context_parts' = IF Truthy(r.value)
                                  THEN Append(context_parts, HistoryTag(r.value))
                                  ELSE context_parts
              /\ pc' = "stdin"
              /\ exc' = exc
    /\ UNCHANGED <<entry, cfg_model, query, sassy, system, stdin_text, full_query,
                   messages, sent, answers, errors, exit_code,
                   vars_contents, vars_client, vars_lib>>

\* main: if not sys.stdin.isatty(): context_parts.append(<context> of stdin.read())
ReadStdin ==
    /\ pc = "stdin"
    /\ \E s \in {NotPiped} \cup Strs :
         /\ stdin_text' = s
         /\ context_parts' = IF s # NotPiped
                             THEN Append(context_parts, ContextTag(s))
                             ELSE context_parts
    /\ pc' = "build"
    /\ UNCHANGED <<entry, cfg_model, query, sassy, system, tmux_context, full_query,
                   messages, sent, exc, answers, errors, exit_code,
                   vars_contents, vars_client, vars_lib>>

\* main: full_query = "\n".join([*context_parts, <query> tag]); pick ss or sss
BuildQuery ==
    /\ pc = "build"
    /\ full_query' = Join(Append(context_parts, QueryTag(query)))
    /\ system' = IF sassy THEN sassy_sage_prompt ELSE sage_prompt
    /\ pc' = "completion"
    /\ UNCHANGED <<entry, cfg_model, query, sassy, tmux_context, stdin_text,
                   context_parts, messages, sent, exc, answers, errors,
                   exit_code, vars_contents, vars_client, vars_lib>>

\* ShellSage._get_completion(query, system): create_messages, then
\* client.chat.completions.create(model, messages, temperature=0.7), which
\* returns a response or raises.  Temperatures are in tenths.
GetCompletion ==
    /\ pc = "completion"
    /\ messages' = CreateMessages(full_query, system)
    /\ IF messages'.kind = "raise"
       THEN /\ exc' = messages'.value[1]
            /\ pc' = Handler
            /\ sent' = sent
       ELSE /\ sent' = Append(sent,
                   [model |-> IF cfg_model # EmptyModel THEN cfg_model
                              ELSE FallbackModel,
                    messages |-> messages'.value,
                    temperature |-> 7])
            /\ \E ok \in BOOLEAN :
                 IF ok
                 THEN /\ pc' = IF entry = "main" THEN "render" ELSE "returned"
                      /\ exc' = exc
                 ELSE /\ pc' = Handler
                      /\ exc' = "ProviderError"
    /\ UNCHANGED <<entry, cfg_model, query, sassy, system, tmux_context,
                   stdin_text, context_parts, full_query, answers, errors,
                   exit_code, vars_contents, vars_client, vars_lib>>

RenderThenRaise ==
    /\ pc = "render"
    /\ \E ok \in BOOLEAN :
         IF ok
         THEN /\ answers' = answers + 1
              /\ exit_code' = 0
              /\ pc' = "done"
              /\ exc' = exc
         ELSE /\ answers' = answers + 1
              /\ exit_code' = exit_code
              /\ pc' = "except"
              /\ exc' = "RenderError"
    /\ UNCHANGED <<entry, cfg_model, query, sassy, system, tmux_context,
                   stdin_text, context_parts, full_query, messages, sent,
                   errors, vars_contents, vars_client, vars_lib>>

\* main: sage.console.print(Markdown(response, ...)) prints the answer or raises
Render ==
    /\ pc = "render"
    /\ \E ok \in BOOLEAN :
         IF ok
         THEN /\ answers' = answers + 1
              /\ exit_code' = 0
              /\ pc' = "done"
              /\ exc' = exc
         ELSE /\ answers' = answers
              /\ exit_code' = exit_code
              /\ pc' = "except"
              /\ exc' = "RenderError"
    /\ UNCHANGED <<entry, cfg_model, query, sassy, system, tmux_context,
                   stdin_text, context_parts, full_query, messages, sent,
                   errors, vars_contents, vars_client, vars_lib>>

\* main: except Exception: logging.error(...); raise typer.Exit(code=1)
Except ==
    /\ pc = "except"
    /\ errors' = errors + 1
    /\ exit_code' = 1
    /\ pc' = "done"
    /\ UNCHANGED <<entry, cfg_model, query, sassy, system, tmux_context,
                   stdin_text, context_parts, full_query, messages, sent,
                   exc, answers, vars_contents, vars_client, vars_lib>>

(***************************************************************************)
(* The credential store (config.py).                                       *)
(***************************************************************************)
MaxOps == 2         \* load_api_key / save_api_key calls made on one store

\* What is on disk: the config directory ("missing": mkdir creates it;
\* "not_creatable": mkdir raises; "not_chmodable": chmod raises) and
\* credentials.json ("not_object": valid JSON that is no object; "no_key":
\* an object without anthropic_api_key; "has_key": an object holding key)
FileStates ==
    {"missing", "unreadable", "malformed", "not_object", "no_key", "has_key"}
StoreInputs ==
    {[dir |-> d, file |-> f, key |-> k] :
        d \in {"present", "not_chmodable"}, f \in FileStates \ {"has_key"},
        k \in {<<>>}}
    \cup {[dir |-> d, file |-> "has_key", key |-> k] :
            d \in {"present", "not_chmodable"}, k \in Strs}
    \cup {[dir |-> d, file |-> "missing", key |-> <<>>] :
            d \in {"missing", "not_creatable"}}

\* get_config_dir() / get_config_file(): mkdir(parents=True, exist_ok=True)
\* then chmod(0o700), neither inside a try
get_config_file(st) ==
    IF st.dir \in {"not_creatable", "not_chmodable"}
    THEN Raise("PermissionError")
    ELSE Return([st EXCEPT !.dir = "present"])

\* load_api_key(): the try covers exists/open/json.load/config.get and
\* catches json.JSONDecodeError and OSError
load_api_key(st) ==
    LET f == get_config_file(st) IN
    IF f.kind = "raise" THEN f
    ELSE IF st.file = "has_key" THEN Return(st.key)
    ELSE IF st.file = "not_object" THEN Raise("AttributeError")
    ELSE Return(None)

\* save_api_key(api_key): what it raises, or Return of the store it leaves
save_api_key(st, k) ==
    LET f == get_config_file(st) IN
    IF k = <<>> \/ Strip(k) = <<>> THEN Raise("ValueError")
    ELSE IF f.kind = "raise" THEN f
    ELSE IF st.file = "unreadable" THEN Raise("PermissionError")
    ELSE IF st.file = "not_object" THEN Raise("TypeError")
    ELSE Return([dir |-> "present", file |-> "has_key", key |-> Strip(k)])

\* What get_config_dir leaves on disk when the operation went past it
AfterConfigDir(st, went) ==
    IF went /\ st.dir = "missing" THEN [st EXCEPT !.dir = "present"] ELSE st

(***************************************************************************)
(* Client (client.py), ChatRequest and ChatMessage (types.py).             *)
(***************************************************************************)
\* models.py: the keys of MODEL_TYPES
MODEL_TYPES ==
    {"claude-3-opus-20240229", "claude-3-5-sonnet-20241022",
     "claude-3-haiku-20240307", "claude-3-5-haiku-20241022"}

ClientModelInputs ==
    {"claude-3-5-sonnet-20241022", "claude-3-5-haiku-20241022", "claude-typo"}

\* Request parameters a caller may pass; temperatures are in tenths.
TempInputs == {-1, 0, 10, 11}
MaxTokensInputs == {-1, 0, 4096}
MsgInputs ==
    {<<[role |-> "user", content |-> <<"a">>]>>,
     <<[role |-> "user", content |-> <<" ">>]>>,
     <<[role |-> "tool", content |-> <<"a">>]>>}
UsageInputs ==
    {[input_tokens |-> 1, output_tokens |-> 1],
     [input_tokens |-> 2, output_tokens |-> 0]}

\* ChatMessage: role is one of the three literals, content.strip() is not empty
ValidMessage(m) ==
    /\ m.role \in {"user", "assistant", "system"}
    /\ Strip(m.content) # <<>>

ValidTemperatureAny(t) == TRUE

\* ChatRequest.temperature: Field(ge=0, le=1) and validate_temperature
ValidTemperature(t) == 0 <= t /\ t <= 10

\* ChatRequest.max_tokens: Field(ge=0) and validate_max_tokens
ValidMaxTokens(n) == n >= 0

\* ChatRequest(model=..., messages=..., **kwargs) validates
ValidRequest(r) ==
    /\ \A i \in 1..Len(r.messages) : ValidMessage(r.messages[i])
    /\ ValidTemperature(r.temperature)
    /\ ValidMaxTokens(r.max_tokens)

NoRequest == [messages |-> <<>>, temperature |-> 0, max_tokens |-> 0]

\* A get_completion call: its request, what it handed back and, in streaming
\* mode, the generator _stream_response returned.
\*   state      "none"; "rejected", "returned", "raised" (the call itself);
\*              "created", "suspended", "exhausted", "failed", "closed"
\*              (the generator)
\*   conn       the provider connection: "none", "open", "closed"
\*   requests   provider requests made
\*   pulls      next() calls made on the generator
\*   delivered  fragments yielded
\*   abandoned  the consumer has stopped pulling
\*   provider_failed  the provider raised during this dispatch
\*   exc_type, exc_cause  the exception the caller got ("none" if none)
NoCall ==
    [mode |-> "none", req |-> NoRequest, state |-> "none", conn |-> "none",
     requests |-> 0, pulls |-> 0, delivered |-> 0, abandoned |-> FALSE,
     provider_failed |-> FALSE, exc_type |-> "none", exc_cause |-> "none"]

GeneratorLive == {"created", "suspended"}
GeneratorFinished == {"exhausted", "failed", "closed"}
CallOver == {"none", "rejected", "returned", "raised"} \cup GeneratorFinished

NoLog == [none |-> TRUE, items |-> <<>>]

\* if self.usage_log is not None: self.usage_log.append(Usage(...))
LogAppend(log, u) ==
    IF log.none THEN log ELSE [log EXCEPT !.items = Append(@, u)]

\* Client.__init__(model, api_key, log_usage): arg and env say whether the
\* argument and ANTHROPIC_API_KEY give a key; st is the credential store
\* load_api_key() reads when neither does
NewClient ==
    /\ client = "new"
    /\ IF model \notin MODEL_TYPES
       THEN /\ client' = "ValueError: Invalid model"
            /\ UNCHANGED <<api_key, usage_log>>
       ELSE \E arg, env \in BOOLEAN, st \in StoreInputs :
              LET stored == IF arg \/ env THEN Return(None)
                            ELSE load_api_key(st)
              IN
              /\ api_key' = (arg \/ env \/ (stored.kind = "return"
                                             /\ Truthy(stored.value)))
              /\ IF stored.kind = "raise"
                 THEN /\ client' = stored.value[1]
                      /\ usage_log' = usage_log
                 ELSE IF ~api_key'
                 THEN /\ client' = "ValueError: API key not found"
                      /\ usage_log' = usage_log
                 ELSE /\ usage_log' = IF log_usage
                                      THEN [none |-> FALSE, items |-> <<>>]
                                      ELSE NoLog
                      /\ \E ok \in BOOLEAN :
                           client' = IF ok THEN "ready" ELSE "ConnectionError"
    /\ UNCHANGED <<model, log_usage, call, ncalls, completed, vars_contents,
                   vars_cli, vars_lib>>

\* except Exception as e: raise RuntimeError(f"Claude API call failed: {e}")
Wrapped(c, cause) == [c EXCEPT !.exc_type = "RuntimeError", !.exc_cause = cause]

\* an exception that leaves the generator's frame as it is
Unwrapped(c, cause) == [c EXCEPT !.exc_type = cause, !.exc_cause = "none"]

\* Client.get_completion(messages, **kwargs) with Client._get_response
GetCompletionCall ==
    /\ client = "ready"
    /\ ncalls < MaxCalls
    /\ call.state \in CallOver
    /\ ncalls' = ncalls + 1
    /\ \E msgs \in MsgInputs, t \in TempInputs, n \in MaxTokensInputs,
          stream \in BOOLEAN :
         LET req == [messages |-> msgs, temperature |-> t, max_tokens |-> n]
             c == [NoCall EXCEPT !.req = req,
                                 !.mode = IF stream THEN "stream" ELSE "blocking"]
         IN  IF ~ValidRequest(req)
             THEN /\ call' = Wrapped([c EXCEPT !.state = "rejected"],
                                     "ValidationError")
                  /\ UNCHANGED <<usage_log, completed>>
             ELSE IF stream
             THEN /\ call' = [c EXCEPT !.state = "created"]
                  /\ UNCHANGED <<usage_log, completed>>
             ELSE \E ok \in BOOLEAN : \E u \in UsageInputs :
                    IF ok
                    THEN /\ call' = [c EXCEPT !.state = "returned",
                                              !.requests = 1,
                                              !.conn = "closed"]
                         /\ usage_log' = LogAppend(usage_log, u)
                         /\ completed' = completed + 1
                    ELSE /\ call' = Wrapped([c EXCEPT !.state = "raised",
                                                      !.requests = 1,
                                                      !.conn = "closed",
                                                      !.provider_failed = TRUE],
                                            "ProviderError")
                         /\ UNCHANGED <<usage_log, completed>>
    /\ UNCHANGED <<client, model, api_key, log_usage, vars_contents, vars_cli,
                   vars_lib>>

\* What the provider does while one next() runs the generator's body:
\*   "request_fails"  messages.stream(...) or entering it raises
\*   "fragment"       text_stream gives a chunk
\*   "stream_error"   text_stream raises
\*   "end"            text_stream ends (and get_final_message answers)
\*   "final_fails"    text_stream ends and get_final_message raises
ProviderSteps(c) ==
    (IF c.state = "created" THEN {"request_fails"} ELSE {})
    \cup (IF c.delivered < MaxFragments THEN {"fragment"} ELSE {})
    \cup {"stream_error", "end"}
    \cup (IF ~usage_log.none THEN {"final_fails"} ELSE {})

StreamLogEager(o, log, u) == LogAppend(log, u)

\* _stream_response: the append after the for loop, inside the with block
StreamLog(o, log, u) == IF o = "end" THEN LogAppend(log, u) ELSE log

ResumeRetry(c, o) ==
    LET opened == [c EXCEPT !.pulls = @ + 1,
                            !.requests = IF c.state = "created" THEN 1 ELSE @]
    IN  IF o = "request_fails"
        THEN Unwrapped([opened EXCEPT !.state = "failed",
                                      !.provider_failed = TRUE], "ProviderError")
        ELSE IF o = "fragment"
        THEN [opened EXCEPT !.state = "suspended", !.conn = "open",
                            !.delivered = @ + 1]
        ELSE IF o = "end"
        THEN [opened EXCEPT !.state = "exhausted", !.conn = "closed"]
        ELSE [opened EXCEPT !.state = "suspended", !.conn = "open",
                            !.requests = @ + 1, !.provider_failed = TRUE]

\* next() on a generator that is created or suspended at its yield
Resume(c, o) ==
    LET opened == [c EXCEPT !.pulls = @ + 1,
                            !.requests = IF c.state = "created" THEN 1 ELSE @]
    IN  IF o = "request_fails"
        THEN Unwrapped([opened EXCEPT !.state = "failed",
                                      !.provider_failed = TRUE], "ProviderError")
        ELSE IF o = "fragment"
        THEN [opened EXCEPT !.state = "suspended", !.conn = "open",
                            !.delivered = @ + 1]
        ELSE IF o = "end"
        THEN [opened EXCEPT !.state = "exhausted", !.conn = "closed"]
        ELSE Unwrapped([opened EXCEPT !.state = "failed", !.conn = "closed",
                                      !.provider_failed = TRUE], "ProviderError")

ResumeFinishedRestart(c) ==
    [c EXCEPT !.pulls = @ + 1, !.delivered = @ + 1, !.requests = @ + 1,
              !.state = "suspended", !.conn = "open"]

\* next() on a generator that has returned, raised or been closed: StopIteration
ResumeFinished(c) == [c EXCEPT !.pulls = @ + 1]

\* the consumer calls next() on the generator _stream_response returned
Pull ==
    /\ call.state \in GeneratorLive \cup GeneratorFinished
    /\ ~call.abandoned
    /\ call.pulls < MaxFragments + 2
    /\ IF call.state \in GeneratorFinished
       THEN /\ call' = ResumeFinished(call)
            /\ UNCHANGED <<usage_log, completed>>
       ELSE \E o \in ProviderSteps(call) : \E u \in UsageInputs :
              /\ call' = Resume(call, o)
              /\ usage_log' = StreamLog(o, usage_log, u)
              /\ completed' = IF o = "end" THEN completed + 1 ELSE completed
    /\ UNCHANGED <<client, model, api_key, log_usage, ncalls, vars_contents,
                   vars_cli, vars_lib>>

\* the consumer stops pulling and keeps the generator: it stays at its yield
\* inside the with block
Abandon ==
    /\ call.state \in GeneratorLive
    /\ ~call.abandoned
    /\ call' = [call EXCEPT !.abandoned = TRUE]
    /\ UNCHANGED <<client, model, api_key, log_usage, usage_log, ncalls,
                   completed, vars_contents, vars_cli, vars_lib>>

\* generator.close(), by the consumer or when the generator is finalized:
\* GeneratorExit at the yield leaves the with block
Close ==
    /\ call.state \in GeneratorLive
    /\ call' = [call EXCEPT !.state = "closed",
                            !.conn = IF @ = "open" THEN "closed" ELSE @]
    /\ UNCHANGED <<client, model, api_key, log_usage, usage_log, ncalls,
                   completed, vars_contents, vars_cli, vars_lib>>

(***************************************************************************)
(* ToolChoice and ChatRequest (types.py).                                  *)
(***************************************************************************)
MaxTools == 2       \* longest tools list of a request

True == <<"#True">>
False == <<"#False">>

\* Tool names: strings, the empty one included
ToolNames == SeqsUpTo({"a", "b"}, MaxLen)

\* choose: Union[str, bool, None]
ChooseInputs == ToolNames \cup {True, False, None}

\* isinstance(choose, str)
IsStr(x) == x \notin {True, False, None}

\* ToolChoice(type=..., name=...); name defaults to None
ToolChoice(type, name) == [type |-> type, name |-> name]

\* The Python value None where a ToolChoice may stand
NoToolChoice == ToolChoice("#None", None)

from_choice_falsy_str(x) ==
    IF IsStr(x) /\ x # <<>> THEN ToolChoice("tool", x)
    ELSE ToolChoice(IF x = True THEN "any" ELSE "auto", None)

\* ToolChoice.from_choice(choose)
from_choice(x) ==
    IF IsStr(x) THEN ToolChoice("tool", x)
    ELSE ToolChoice(IF x = True THEN "any" ELSE "auto", None)

\* ToolChoice.validate_type
validate_type(tc) == tc.type \in {"tool", "any", "auto"}

\* tools: Optional[List[Dict[str, Any]]]: None, or a list of tool definitions
NoTools == [none |-> TRUE, items |-> <<>>]
ToolDicts == {[name |-> n] : n \in ToolNames}
ToolsInputs ==
    {NoTools} \cup {[none |-> FALSE, items |-> ts] : ts \in SeqsUpTo(ToolDicts, MaxTools)}

NoChatRequest ==
    [messages |-> <<>>, temperature |-> 0, max_tokens |-> 0, tools |-> NoTools,
     tool_choice |-> NoToolChoice]

\* ChatRequest(**fields) validates: the field validators of ChatMessage,
\* temperature, max_tokens and ToolChoice; no validator relates two fields
ValidChatRequest(r) ==
    /\ ValidRequest(r)
    /\ r.tool_choice = NoToolChoice \/ validate_type(r.tool_choice)

\* tool_choice = ToolChoice.from_choice(choose)
FromChoice ==
    /\ tool_choice = NoToolChoice
    /\ accepted = "pending"
    /\ tool_choice' = from_choice(choose)
    /\ UNCHANGED <<choose, request, accepted, vars_config, vars_contents,
                   vars_cli, vars_client>>

\* ChatRequest(model=..., messages=..., temperature=..., max_tokens=...,
\*             tools=..., tool_choice=tool_choice)
NewChatRequest ==
    /\ accepted = "pending"
    /\ \E ms \in MsgInputs, t \in TempInputs, n \in MaxTokensInputs,
          ts \in ToolsInputs :
         /\ request' = [messages |-> ms, temperature |-> t, max_tokens |-> n,
                        tools |-> ts, tool_choice |-> tool_choice]
         /\ accepted' = IF ValidChatRequest(request') THEN "accepted"
                        ELSE "rejected"
    /\ UNCHANGED <<choose, tool_choice, vars_config, vars_contents, vars_cli,
                   vars_client>>

\* The operations on one credential store
LoadApiKey ==
    /\ nops < MaxOps
    /\ nops' = nops + 1
    /\ config_op' = "load"
    /\ config_result' = load_api_key(store)
    /\ store' = AfterConfigDir(store, TRUE)
    /\ UNCHANGED <<vars_types, vars_contents, vars_cli, vars_client>>

SaveApiKey ==
    /\ nops < MaxOps
    /\ nops' = nops + 1
    /\ config_op' = "save"
    /\ \E k \in Strs :
         LET r == save_api_key(store, k) IN
         IF r.kind = "raise"
         THEN /\ config_result' = r
              /\ store' = AfterConfigDir(store, r # Raise("ValueError"))
         ELSE /\ config_result' = Return(None)
              /\ store' = r.value
    /\ UNCHANGED <<vars_types, vars_contents, vars_cli, vars_client>>

(***************************************************************************)
(* Specifications.                                                         *)
(***************************************************************************)
IdleTypes ==
    /\ choose = None
    /\ tool_choice = NoToolChoice
    /\ request = NoChatRequest
    /\ accepted = "idle"

IdleConfig ==
    /\ store = [dir |-> "missing", file |-> "missing", key |-> <<>>]
    /\ config_op = "none"
    /\ config_result = Pending
    /\ nops = MaxOps

IdleLibrary == IdleTypes /\ IdleConfig

IdleContents ==
    /\ content = <<>>
    /\ result = Pending

IdleCLI ==
    /\ entry = "none"
    /\ pc = "idle"
    /\ cfg_model = EmptyModel
    /\ query = <<>>
    /\ sassy = FALSE
    /\ system = None
    /\ tmux_context = None
    /\ stdin_text = NotPiped
    /\ context_parts = <<>>
    /\ full_query = None
    /\ messages = Pending
    /\ sent = <<>>
    /\ exc = "none"
    /\ answers = 0
    /\ errors = 0
    /\ exit_code = -1

IdleClient ==
    /\ client = "none"
    /\ model = ""
    /\ api_key = FALSE
    /\ log_usage = FALSE
    /\ usage_log = NoLog
    /\ call = NoCall
    /\ ncalls = 0
    /\ completed = 0

\* contents applied to every content sequence within the bounds
InitContents ==
    /\ content \in ContentInputs
    /\ result = Pending
    /\ IdleCLI
    /\ IdleClient
    /\ IdleLibrary

NextContents == Contents

SpecContents == InitContents /\ [][NextContents]_vars

\* One invocation: of the command main with its arguments, or of ShellSage
\* built from a config and asked for one completion.
InitCLI ==
    /\ entry \in {"main", "ShellSage"}
    /\ IF entry = "main"
       THEN /\ pc = "start"
            /\ cfg_model = EmptyModel
            /\ query \in Strs
            /\ sassy \in BOOLEAN
            /\ system = None
            /\ full_query = None
       ELSE /\ pc = "setup_client"
            /\ cfg_model \in SageModelInputs
            /\ query = <<>>
            /\ sassy = FALSE
            /\ system \in Strs
            /\ full_query \in Strs
    /\ tmux_context = None
    /\ stdin_text = NotPiped
    /\ context_parts = <<>>
    /\ messages = Pending
    /\ sent = <<>>
    /\ exc = "none"
    /\ answers = 0
    /\ errors = 0
    /\ exit_code = -1
    /\ IdleContents
    /\ IdleClient
    /\ IdleLibrary

NextCLI ==
    \/ MainStart
    \/ SetupClient
    \/ GetTmux
    \/ ReadStdin
    \/ BuildQuery
    \/ GetCompletion
    \/ Render
    \/ Except

SpecCLI == InitCLI /\ [][NextCLI]_vars

\* main is straight-line code: every step it can take, it takes
FairSpecCLI == SpecCLI /\ WF_vars(NextCLI)

\* One Client, constructed from its arguments and then called
Init ==
    /\ client = "new"
    /\ model \in ClientModelInputs
    /\ log_usage \in BOOLEAN
    /\ api_key = FALSE
    /\ usage_log = NoLog
    /\ call = NoCall
    /\ ncalls = 0
    /\ completed = 0
    /\ IdleContents
    /\ IdleCLI
    /\ IdleLibrary

Next ==
    \/ NewClient
    \/ GetCompletionCall
    \/ Pull
    \/ Abandon
    \/ Close

Spec == Init /\ [][Next]_vars

\* Every path that dispatches a request: a Client, or an invocation of main
\* or ShellSage
InitDispatch == Init \/ InitCLI

NextDispatch == Next \/ NextCLI

SpecDispatch == InitDispatch /\ [][NextDispatch]_vars

\* One ToolChoice built from one input, and one ChatRequest constructed
InitTypes ==
    /\ choose \in ChooseInputs
    /\ tool_choice = NoToolChoice
    /\ request = NoChatRequest
    /\ accepted = "pending"
    /\ IdleConfig
    /\ IdleContents
    /\ IdleCLI
    /\ IdleClient

NextTypes ==
    \/ FromChoice
    \/ NewChatRequest

SpecTypes == InitTypes /\ [][NextTypes]_vars

\* One credential store, loaded from and saved to
InitConfig ==
    /\ store \in StoreInputs
    /\ config_op = "none"
    /\ config_result = Pending
    /\ nops = 0
    /\ IdleTypes
    /\ IdleContents
    /\ IdleCLI
    /\ IdleClient

NextConfig ==
    \/ LoadApiKey
    \/ SaveApiKey

SpecConfig == InitConfig /\ [][NextConfig]_vars

(***************************************************************************)
(* Properties of Client (Spec).                                            *)
(***************************************************************************)
\* C2: in blocking and in streaming mode, a failure the provider raises
\* during a dispatch reaches the caller as the one wrapping error that
\* carries the provider's failure as its cause, never as the raw exception.
C2_ProviderFailuresWrapped ==
    call.provider_failed =>
        /\ call.exc_type = "RuntimeError"
        /\ call.exc_cause = "ProviderError"

\* C3: a streaming dispatch that is over (stream consumed, consumer gone
\* after some fragment, transport error) does not hold an open connection.
C3_ConnectionClosedOnEveryExit ==
    (call.mode = "stream" /\ (call.state \in GeneratorFinished \/ call.abandoned))
        => call.conn # "open"

IsPrefix(s, t) == Len(s) <= Len(t) /\ SubSeq(t, 1, Len(s)) = s

\* C4: with usage logging enabled the log holds one record per completed
\* call, with it disabled it holds nothing; a record is appended only by a
\* blocking call that returns its response or by the pull that ends a stream
\* after its last fragment; records in the log are never removed or changed.
C4_OneRecordPerCompletedCall ==
    /\ [](client = "ready" =>
            IF log_usage
            THEN ~usage_log.none /\ Len(usage_log.items) = completed
            ELSE usage_log = NoLog)
    /\ [][/\ IsPrefix(usage_log.items, usage_log'.items)
          /\ Len(usage_log'.items) <= Len(usage_log.items) + 1
          /\ Len(usage_log'.items) = Len(usage_log.items) + 1 =>
                \/ call'.mode = "blocking" /\ call'.state = "returned"
                \/ /\ call'.mode = "stream"
                   /\ call.state \in GeneratorLive
                   /\ call'.state = "exhausted"
                   /\ call'.delivered = call.delivered]_vars

\* a stream that delivered a fragment and was then pulled to its end, and a
\* second call whose stream failed: one record
C4_Witness ==
    /\ log_usage
    /\ ncalls = 2
    /\ call.mode = "stream"
    /\ call.state = "failed"
    /\ call.delivered = 1
    /\ completed = 1
    /\ Len(usage_log.items) = 1

DispatchStepWithin(states) ==
    (/\ call.mode = "stream"
     /\ call.state \in GeneratorLive \cup GeneratorFinished
     /\ ncalls' = ncalls) =>
        /\ call'.state \in states
        /\ call.state # "created" => call'.state # "created"
        /\ call.state \in GeneratorFinished =>
              call'.state = call.state /\ call'.requests = call.requests
        /\ call.requests <= call'.requests /\ call'.requests <= 1
        /\ call'.state \in {"suspended", "exhausted"} => call'.requests = 1
        /\ (call'.state = "failed" /\ call.state # "failed") =>
              call'.provider_failed
        /\ (call'.state = "exhausted" /\ call.state # "exhausted") =>
              ~call'.provider_failed
        /\ (call'.state = "closed" /\ call.state # "closed") =>
              ~call'.provider_failed /\ call'.requests = call.requests

\* C16: a streaming dispatch follows only Idle -> Sending -> Streaming ->
\* Completed, or -> Failed from a non-terminal state on a provider failure;
\* Completed and Failed are absorbing, nothing returns to Idle, and a
\* dispatch sends at most one provider request, none after it finished.
C16_OnlyListedTransitions ==
    [][DispatchStepWithin({"created", "suspended", "exhausted", "failed"})]_vars

\* C16, amended: as above, with a third absorbing terminal state, Closed,
\* entered from Idle or Streaming when the consumer closes the generator
\* (or it is finalized) before the stream ended; closing sends no request.
C16_TransitionsWithClosed ==
    [][DispatchStepWithin({"created", "suspended", "exhausted", "failed",
                           "closed"})]_vars

\* a stream closed by its consumer after the first fragment
C16_Witness ==
    /\ call.mode = "stream"
    /\ call.state = "closed"
    /\ call.conn = "closed"
    /\ call.delivered = 1
    /\ call.pulls = 1
    /\ call.requests = 1
    /\ ~call.provider_failed

(***************************************************************************)
(* Properties of every dispatching path (SpecDispatch).                    *)
(***************************************************************************)
\* C11: a request that reached the provider, from Client.get_completion or
\* from ShellSage._get_completion, has a temperature t with 0 <= t <= 1 (in
\* tenths: 0 <= t <= 10), and a get_completion call whose temperature is
\* outside that range is rejected without a request.
C11_TemperatureInRange ==
    /\ call.requests > 0 =>
          0 <= call.req.temperature /\ call.req.temperature <= 10
    /\ (call.state # "none"
         /\ (call.req.temperature < 0 \/ call.req.temperature > 10)) =>
          call.state = "rejected" /\ call.requests = 0 /\ call.conn = "none"
    /\ \A i \in 1..Len(sent) :
          0 <= sent[i].temperature /\ sent[i].temperature <= 10

\* a call whose only fault is the temperature 1.1: rejected
C11_Witness ==
    /\ call.state = "rejected"
    /\ call.req.temperature = 11
    /\ call.req.max_tokens = 4096
    /\ call.req.messages = <<[role |-> "user", content |-> <<"a">>]>>
    /\ call.exc_type = "RuntimeError"
    /\ call.requests = 0

(***************************************************************************)
(* Properties of contents (SpecContents).                                  *)
(***************************************************************************)
IsBlank(s) == \A i \in 1..Len(s) : s[i] \in Whitespace

\* t is s without its leading and trailing whitespace
IsTrimOf(t, s) ==
    \E i \in 1..(Len(s) + 1) : \E j \in 0..Len(s) :
        /\ t = SubSeq(s, i, j)
        /\ \A k \in 1..(i - 1) : s[k] \in Whitespace
        /\ \A k \in (j + 1)..Len(s) : s[k] \in Whitespace
        /\ t # <<>> => t[1] \notin Whitespace /\ t[Len(t)] \notin Whitespace

TextIndexes == {i \in 1..Len(content) : content[i].cls = "TextBlock"}

\* C7: for a non-empty content sequence contents returns, and never raises:
\* the trimmed text of the first text part in sequence order when there is
\* one (whatever precedes it); otherwise the first part's text field
\* (trimmed, as every answer is) if it has one, else its generic string form.
C7_FirstTextPartTrimmed ==
    (result # Pending /\ content # <<>>) =>
        /\ result.kind = "return"
        /\ IF TextIndexes # {}
           THEN \E i \in TextIndexes :
                    /\ \A j \in TextIndexes : i <= j
                    /\ IsTrimOf(result.value, content[i].text)
           ELSE IF content[1].text # NoAttr
                THEN IsTrimOf(result.value, content[1].text)
                ELSE result.value = <<content[1].cls, "(...)">>

\* a tool-use part, then the text part " h ": the answer is "h"
C7_Witness ==
    /\ result # Pending
    /\ Len(content) = 2
    /\ content[1].cls = "ToolUseBlock"
    /\ content[2] = [cls |-> "TextBlock", text |-> <<" ", "h", " ">>]
    /\ result = Return(<<"h">>)

\* C8: contents fails with EmptyResponse on the empty content sequence, and
\* on no other input.
C8_EmptyContentFails ==
    result # Pending =>
        /\ content = <<>> => result = Raise("EmptyResponse")
        /\ content # <<>> => result.kind = "return"

(***************************************************************************)
(* Properties of main and ShellSage (SpecCLI, FairSpecCLI).                *)
(***************************************************************************)
\* C1: every invocation of main terminates, and when it has, it has produced
\* exactly one rendered answer or exactly one reported error, never both and
\* never neither.
C1_ExactlyOneOutcome ==
    /\ [](entry = "main" => answers + errors <= 1)
    /\ [](entry = "main" /\ pc = "done" => answers + errors = 1)
    /\ <>(entry = "main" => pc = "done")

\* the provider answered and rendering failed: one error, no answer
C1_Witness ==
    /\ entry = "main"
    /\ pc = "done"
    /\ exc = "RenderError"
    /\ sent # <<>>
    /\ answers = 0
    /\ errors = 1

\* C14: whatever the pane selector and whatever the terminal multiplexer does
\* (no session, non-zero exit, executable missing), get_history and
\* get_tmux_context return the capture or None and raise nothing, so no
\* invocation fails for lack of terminal history.
C14_HistoryNeverRaises ==
    /\ exc # "CalledProcessError"
    /\ exc # "FileNotFoundError"

\* C5: no request is handed to the provider when the model identifier is
\* unknown or a request parameter fails validation (temperatures in tenths).
C5_NoInvalidRequestSent ==
    /\ \A i \in 1..Len(sent) :
          /\ KnownSageModel(sent[i].model)
          /\ 0 <= sent[i].temperature /\ sent[i].temperature <= 10
          /\ \A k \in 1..Len(sent[i].messages) :
                ~IsBlank(sent[i].messages[k].content)
    /\ call.requests > 0 =>
          /\ model \in MODEL_TYPES
          /\ api_key
          /\ 0 <= call.req.temperature /\ call.req.temperature <= 10
          /\ call.req.max_tokens >= 0
          /\ \A k \in 1..Len(call.req.messages) :
                /\ call.req.messages[k].role \in {"user", "assistant", "system"}
                /\ ~IsBlank(call.req.messages[k].content)

Produced(x) == x \notin {None, NotPiped, <<>>}

\* C9: the prompt is the newline-join, in the order terminal_history, context,
\* query, of the tags of exactly the sources that produced something; a
\* source that is absent or empty contributes no tag.
C9_PromptOmitsEmptySources ==
    (entry = "main" /\ full_query # None) =>
        full_query = Join(
            (IF Produced(tmux_context)
             THEN <<(<<"<terminal_history>", "\n">> \o tmux_context
                     \o <<"\n", "</terminal_history>">>)>>
             ELSE <<>>)
            \o (IF Produced(stdin_text)
                THEN <<(<<"<context>", "\n">> \o stdin_text \o <<"</context>">>)>>
                ELSE <<>>)
            \o <<(<<"<query>", "\n">> \o query \o <<"\n", "</query>">>)>>)

\* C10: create_messages rejects a prompt or persona instruction that is empty
\* or all whitespace, and otherwise returns the system entry with the persona
\* instruction followed by the user entry with the prompt.
C10_RejectsBlankInputs ==
    messages # Pending =>
        IF IsBlank(full_query) \/ IsBlank(system)
        THEN messages.kind = "raise"
        ELSE messages = Return(<<[role |-> "system", content |-> system],
                                 [role |-> "user", content |-> full_query]>>)

(***************************************************************************)
(* Properties of ToolChoice and ChatRequest (SpecTypes).                   *)
(***************************************************************************)
\* C15: from_choice maps a tool-name string x (the empty one included) to
\* the named variant carrying x, True to the 'any' variant and None to the
\* 'auto' variant; every result is one of the three variants, and the 'any'
\* and 'auto' variants carry no name.
C15_FromChoiceVariants ==
    tool_choice # NoToolChoice =>
        /\ tool_choice.type \in {"tool", "any", "auto"}
        /\ IsStr(choose) => tool_choice = ToolChoice("tool", choose)
        /\ choose = True => tool_choice = ToolChoice("any", None)
        /\ choose = None => tool_choice = ToolChoice("auto", None)
        /\ tool_choice.type \in {"any", "auto"} => tool_choice.name = None

C15_Witness ==
    /\ choose = <<>>
    /\ tool_choice = ToolChoice("tool", <<>>)

\* C12: an accepted ChatRequest whose tool_choice is the named variant has a
\* tools list, and that list holds a tool of that name.
C12_NamedToolIsPresent ==
    (accepted = "accepted" /\ request.tool_choice.type = "tool") =>
        /\ ~request.tools.none
        /\ \E i \in 1..Len(request.tools.items) :
              request.tools.items[i].name = request.tool_choice.name

(***************************************************************************)
(* Properties of the credential store (SpecConfig).                        *)
(***************************************************************************)
\* C13: whatever is on disk, load_api_key returns: the stored key when
\* credentials.json holds one, None otherwise; it raises nothing.
C13_LoadNeverRaises ==
    config_op = "load" =>
        /\ config_result.kind = "return"
        /\ store.file = "has_key" => config_result.value = store.key
        /\ store.file # "has_key" => config_result.value = None

====
